---- MODULE Spec2Model ----
(***************************************************************************)
(* A model of the state-and-safety layer of the "safe agents" variant      *)
(* (g safe agents/agent.py): the session state dictionary, the city tools  *)
(* that read and write it, and the safety_check callback that gates every  *)
(* model request.                                                          *)
(*                                                                         *)
(* A Python str is a tuple of one-character strings, so that lower(),      *)
(* strip() and the word-boundary regular expression are computed character *)
(* by character.  A Python dict is a function whose domain is its set of   *)
(* keys.  None and an absent optional value are the empty tuple, a present *)
(* one is a one-element tuple.  An f-string is the tuple of its template   *)
(* and the values interpolated into it.                                    *)
(***************************************************************************)
EXTENDS Integers, Sequences, FiniteSets, TLC

VARIABLES
  state,         \* callback_context.state / tool_context.state of the session
  llm_request,   \* llm_request.contents of the request being gated
  last,          \* the operation that ran last: its name, arguments, result
  prev,          \* the session state before that operation
  prev_request,  \* llm_request.contents before that operation
  events,        \* the contents of the conversation the runtime keeps
  pc,            \* the position of the agent run
  log            \* the tool calls of a pipeline run, in the order they ran:
                 \* the agent, the tool, its arguments, the status and the
                 \* corrected_city it returned, the session state around it

vars == <<state, llm_request, last, prev, prev_request, events, pc, log>>

----------------------------------------------------------------------------
(* str: lower(), strip(), and the characters \w and \s stand for.          *)

UpperLetters ==
  <<"A","B","C","D","E","F","G","H","I","J","K","L","M",
    "N","O","P","Q","R","S","T","U","V","W","X","Y","Z">>

LowerLetters ==
  <<"a","b","c","d","e","f","g","h","i","j","k","l","m",
    "n","o","p","q","r","s","t","u","v","w","x","y","z">>

Digits == {"0","1","2","3","4","5","6","7","8","9"}

Range(f) == {f[i] : i \in DOMAIN f}

\* \w of the re module on the characters of the model: letters, digits, "_"
WordChars == Range(UpperLetters) \cup Range(LowerLetters) \cup Digits \cup {"_"}

\* the characters str.strip() removes
Whitespace == {" ", "\t", "\n", "\r"}

LowerChar(c) ==
  IF \E i \in 1..26 : UpperLetters[i] = c
  THEN LowerLetters[CHOOSE i \in 1..26 : UpperLetters[i] = c]
  ELSE c

\* str.lower()
Lower(s) == SubSeq([i \in 1..Len(s) |-> LowerChar(s[i])], 1, Len(s))

\* str.strip()
Strip(s) ==
  LET keep == {i \in 1..Len(s) : s[i] \notin Whitespace}
  IN IF keep = {} THEN <<>>
     ELSE SubSeq(s, CHOOSE i \in keep : \A j \in keep : i <= j,
                    CHOOSE i \in keep : \A j \in keep : j <= i)

----------------------------------------------------------------------------
(* The static tables.                                                      *)

str_new_york == <<"n","e","w"," ","y","o","r","k">>
str_london == <<"l","o","n","d","o","n">>
str_tokyo == <<"t","o","k","y","o">>
str_sydney == <<"s","y","d","n","e","y">>
str_paris == <<"p","a","r","i","s">>
str_berlin == <<"b","e","r","l","i","n">>
str_mumbai == <<"m","u","m","b","a","i">>
str_los_angeles == <<"l","o","s"," ","a","n","g","e","l","e","s">>
str_san_francisco == <<"s","a","n"," ","f","r","a","n","c","i","s","c","o">>
str_celsius == <<"c","e","l","s","i","u","s">>
str_fahrenheit == <<"f","a","h","r","e","n","h","e","i","t">>

WEATHER_DATABASE ==
  (str_new_york :> [condition |-> "sunny", temperature_celsius |-> 25,
                    temperature_fahrenheit |-> 77]) @@
  (str_london :> [condition |-> "rainy", temperature_celsius |-> 18,
                  temperature_fahrenheit |-> 64]) @@
  (str_tokyo :> [condition |-> "cloudy", temperature_celsius |-> 22,
                 temperature_fahrenheit |-> 72]) @@
  (str_sydney :> [condition |-> "partly cloudy", temperature_celsius |-> 27,
                  temperature_fahrenheit |-> 81])

TIMEZONE_DATABASE ==
  (str_new_york :> "America/New_York") @@
  (str_london :> "Europe/London") @@
  (str_tokyo :> "Asia/Tokyo") @@
  (str_sydney :> "Australia/Sydney") @@
  (str_paris :> "Europe/Paris") @@
  (str_berlin :> "Europe/Berlin") @@
  (str_mumbai :> "Asia/Kolkata") @@
  (str_los_angeles :> "America/Los_Angeles")

CITY_CORRECTIONS ==
  (<<"n","y","c">> :> str_new_york) @@
  (<<"n","y">> :> str_new_york) @@
  (<<"l","a">> :> str_los_angeles) @@
  (<<"s","f">> :> str_san_francisco) @@
  (<<"t","o","k","y","o">> :> str_tokyo) @@
  (<<"s","i","d","n","e","y">> :> str_sydney) @@
  (<<"s","y","d","n","y">> :> str_sydney) @@
  (<<"l","o","n","d","a","n">> :> str_london) @@
  (<<"l","o","n","d","u","n">> :> str_london) @@
  (<<"t","o","k","i","o">> :> str_tokyo) @@
  (<<"n","e","w"," ","y","r","o","k">> :> str_new_york) @@
  (<<"n","e","w"," ","y","o","k">> :> str_new_york) @@
  (<<"p","a","a","r","i","s">> :> str_paris) @@
  (<<"p","a","r","i">> :> str_paris) @@
  (<<"b","e","r","l","n">> :> str_berlin) @@
  (<<"b","a","r","l","i","n">> :> str_berlin)

BLOCKED_TERMS ==
  << <<"b","o","m","b">>, <<"t","e","r","r","o","r","i","s","t">>, <<"h","a","c","k">>, <<"s","t","e","a","l">>, <<"m","u","r","d","e","r">>, <<"k","i","l","l">>,
     <<"i","l","l","e","g","a","l">>, <<"f","r","a","u","d">>, <<"a","b","u","s","e">>, <<"h","a","r","m","f","u","l">>, <<"v","i","o","l","e","n","t">>,
     <<"w","e","a","p","o","n">>, <<"e","x","p","l","i","c","i","t">>, <<"o","f","f","e","n","s","i","v","e">>, <<"g","a","m","b","l","i","n","g">>, <<"s","u","i","c","i","d","e">> >>

----------------------------------------------------------------------------
(* dict: key in d, d.get(key, default), d[key] = value.                    *)

EmptyDict == [k \in {} |-> {}]

Has(d, k) == k \in DOMAIN d

Get(d, k, default) == IF Has(d, k) THEN d[k] ELSE default

Put(d, k, v) == [x \in DOMAIN d \cup {k} |-> IF x = k THEN v ELSE d[x]]

\* the safety_metrics record before anything was blocked
DefaultMetrics ==
  [blocked_attempts |-> 0, last_blocked_time |-> <<>>,
   blocked_terms_detected |-> <<>>]

----------------------------------------------------------------------------
(* State management utilities.                                             *)

\* before_agent that writes the three defaults whether or not a key is present
before_agent_resets(s) ==
  Put(Put(Put(s, "temperature_unit", str_celsius), "city_history", <<>>),
      "safety_metrics", DefaultMetrics)

before_agent(s) ==
  LET s1 == IF ~Has(s, "temperature_unit")
            THEN Put(s, "temperature_unit", str_celsius) ELSE s
      s2 == IF ~Has(s1, "city_history")
            THEN Put(s1, "city_history", <<>>) ELSE s1
  IN IF ~Has(s2, "safety_metrics")
     THEN Put(s2, "safety_metrics", DefaultMetrics) ELSE s2

\* the capacity of city_history
HistoryCap == 5

\* list[-n:]
LastN(h, n) == IF Len(h) > n THEN SubSeq(h, Len(h) - n + 1, Len(h)) ELSE h

\* update_city_history keeping the five oldest entries, list[:5]
update_city_history_keeps_oldest(city, s) ==
  LET s1 == IF ~Has(s, "city_history") THEN Put(s, "city_history", <<>>) ELSE s
      city_lower == Strip(Lower(city))
      h == s1["city_history"]
  IN IF h = <<>> \/ h[Len(h)] # city_lower
     THEN LET h2 == Append(h, city_lower)
          IN Put(s1, "city_history",
                 IF Len(h2) > HistoryCap THEN SubSeq(h2, 1, HistoryCap) ELSE h2)
     ELSE s1

\* update_city_history that appends the city as it was given, without
\* lower() and strip()
update_city_history_as_given(city, s) ==
  LET s1 == IF ~Has(s, "city_history") THEN Put(s, "city_history", <<>>) ELSE s
      h == s1["city_history"]
  IN IF h = <<>> \/ h[Len(h)] # city
     THEN LET h2 == Append(h, city)
          IN Put(s1, "city_history",
                 IF Len(h2) > HistoryCap THEN LastN(h2, HistoryCap) ELSE h2)
     ELSE s1

\* update_city_history that skips a city found anywhere in the history
update_city_history_collapses_any(city, s) ==
  LET s1 == IF ~Has(s, "city_history") THEN Put(s, "city_history", <<>>) ELSE s
      city_lower == Strip(Lower(city))
      h == s1["city_history"]
  IN IF \A i \in 1..Len(h) : h[i] # city_lower
     THEN LET h2 == Append(h, city_lower)
          IN Put(s1, "city_history",
                 IF Len(h2) > HistoryCap THEN LastN(h2, HistoryCap) ELSE h2)
     ELSE s1

\* update_city_history that appends without looking at the last entry
update_city_history_no_collapse(city, s) ==
  LET s1 == IF ~Has(s, "city_history") THEN Put(s, "city_history", <<>>) ELSE s
      city_lower == Strip(Lower(city))
      h2 == Append(s1["city_history"], city_lower)
  IN Put(s1, "city_history",
         IF Len(h2) > HistoryCap THEN LastN(h2, HistoryCap) ELSE h2)

update_city_history(city, s) ==
  LET s1 == IF ~Has(s, "city_history") THEN Put(s, "city_history", <<>>) ELSE s
      city_lower == Strip(Lower(city))
      h == s1["city_history"]
  IN IF h = <<>> \/ h[Len(h)] # city_lower
     THEN LET h2 == Append(h, city_lower)
          IN Put(s1, "city_history",
                 IF Len(h2) > HistoryCap THEN LastN(h2, HistoryCap) ELSE h2)
     ELSE s1

----------------------------------------------------------------------------
(* The request callbacks.  llm_request.contents is a list of Content, each *)
(* a role and a list of Part; a Part carries a text or None.               *)

Part(text) == [text |-> text]

Content(role, parts) == [role |-> role, parts |-> parts]

\* the text of every part of every content, in order
RECURSIVE PartsOf(_)
PartsOf(contents) ==
  IF contents = <<>> THEN <<>>
  ELSE Head(contents).parts \o PartsOf(Tail(contents))

\* " ".join(texts)
RECURSIVE Join(_)
Join(texts) ==
  IF texts = <<>> THEN <<>>
  ELSE IF Len(texts) = 1 THEN texts[1]
  ELSE texts[1] \o <<" ">> \o Join(Tail(texts))

\* rate_limit_callback that leaves every part as it is
rate_limit_callback_off(contents) == contents

rate_limit_callback(contents) ==
  [c \in 1..Len(contents) |->
     Content(contents[c].role,
             [q \in 1..Len(contents[c].parts) |->
                IF contents[c].parts[q].text = << <<>> >>
                THEN Part(<< <<" ">> >>)
                ELSE contents[c].parts[q]])]

\* whether position i of s holds a \w character
IsWordAt(s, i) == i \in 1..Len(s) /\ s[i] \in WordChars

\* \b before position i of s
WordBoundary(s, i) == IsWordAt(s, i - 1) # IsWordAt(s, i)

\* re.search(term, s) without the \b on either side
re_search_substring(term, s) ==
  \E i \in 1..(Len(s) - Len(term) + 1) : SubSeq(s, i, i + Len(term) - 1) = term

\* re.search(r'\b' + re.escape(term) + r'\b', s), for a term without
\* characters that re.escape changes
re_search_word(term, s) ==
  \E i \in 1..(Len(s) - Len(term) + 1) :
    /\ SubSeq(s, i, i + Len(term) - 1) = term
    /\ WordBoundary(s, i)
    /\ WordBoundary(s, i + Len(term))

SAFETY_PROMPT ==
  <<"T","h","e"," ","u","s","e","r","'","s"," ","q","u","e","r","y"," ","c","o","n","t",
       "a","i","n","e","d"," ","p","o","t","e","n","t","i","a","l","l","y"," ","h","a","r",
       "m","f","u","l"," ","c","o","n","t","e","n","t"," ","t","h","a","t"," ","I"," ","c",
       "a","n","n","o","t"," ","r","e","s","p","o","n","d"," ","t","o","."," ">>
  \o <<"P","l","e","a","s","e"," ","p","r","o","v","i","d","e"," ","a"," ","p","o","l","i",
       "t","e"," ","r","e","s","p","o","n","s","e"," ","e","x","p","l","a","i","n","i","n",
       "g"," ","t","h","a","t"," ","y","o","u"," ","c","a","n","n","o","t"," ","a","s","s",
       "i","s","t"," ","w","i","t","h"," ">>
  \o <<"h","a","r","m","f","u","l",","," ","i","l","l","e","g","a","l",","," ","u","n","e",
       "t","h","i","c","a","l",","," ","o","r"," ","d","a","n","g","e","r","o","u","s"," ",
       "r","e","q","u","e","s","t","s","."," ","O","f","f","e","r"," ","t","o"," ","h","e",
       "l","p"," ","w","i","t","h"," ">>
  \o <<"w","e","a","t","h","e","r"," ","a","n","d"," ","t","i","m","e","-","r","e","l","a",
       "t","e","d"," ","q","u","e","r","i","e","s"," ","i","n","s","t","e","a","d",".">>

\* the metrics after a block that counts one attempt per detected term
blocked_metrics_per_term(metrics, detected_terms, current_time) ==
  [blocked_attempts |-> metrics.blocked_attempts + Len(detected_terms),
   last_blocked_time |-> <<current_time>>,
   blocked_terms_detected |-> metrics.blocked_terms_detected \o detected_terms]

\* the metrics after a block that leaves last_blocked_time as it was
blocked_metrics_without_time(metrics, detected_terms, current_time) ==
  [blocked_attempts |-> metrics.blocked_attempts + 1,
   last_blocked_time |-> metrics.last_blocked_time,
   blocked_terms_detected |-> metrics.blocked_terms_detected \o detected_terms]

\* the three updates of safety_metrics in the blocked branch
blocked_metrics(metrics, detected_terms, current_time) ==
  [blocked_attempts |-> metrics.blocked_attempts + 1,
   last_blocked_time |-> <<current_time>>,
   blocked_terms_detected |-> metrics.blocked_terms_detected \o detected_terms]

\* the contents of a blocked request when contents.clear() is left out
blocked_contents_appended(contents) ==
  contents \o <<Content("user", <<Part(<<SAFETY_PROMPT>>)>>)>>

\* contents.clear() and contents.append(new_content)
blocked_contents(contents) == <<Content("user", <<Part(<<SAFETY_PROMPT>>)>>)>>

\* current_time: what datetime.datetime.now().isoformat() reads
\* the session state and the contents it leaves, and the terms it detected
\* safety_check that on a block starts the session over, keeping only the
\* metrics
safety_check_resets_session(contents, s, current_time) ==
  LET parts == PartsOf(contents)
      with_text == SelectSeq(parts, LAMBDA q : q.text # <<>> /\ q.text[1] # <<>>)
      input_texts == [i \in 1..Len(with_text) |-> Lower(with_text[i].text[1])]
      combined_input == Join(input_texts)
      detected_terms ==
        SelectSeq(BLOCKED_TERMS, LAMBDA term : re_search_word(term, combined_input))
  IN IF detected_terms # <<>>
     THEN LET s1 == IF ~Has(s, "safety_metrics")
                    THEN Put(s, "safety_metrics", DefaultMetrics) ELSE s
          IN [state |-> Put(EmptyDict, "safety_metrics",
                            blocked_metrics(s1["safety_metrics"], detected_terms,
                                            current_time)),
              contents |-> blocked_contents(contents),
              detected_terms |-> detected_terms]
     ELSE [state |-> s,
           contents |-> rate_limit_callback(contents),
           detected_terms |-> detected_terms]

safety_check(contents, s, current_time) ==
  LET parts == PartsOf(contents)
      with_text == SelectSeq(parts, LAMBDA q : q.text # <<>> /\ q.text[1] # <<>>)
      input_texts == [i \in 1..Len(with_text) |-> Lower(with_text[i].text[1])]
      combined_input == Join(input_texts)
      detected_terms ==
        SelectSeq(BLOCKED_TERMS, LAMBDA term : re_search_word(term, combined_input))
  IN IF detected_terms # <<>>
     THEN LET s1 == IF ~Has(s, "safety_metrics")
                    THEN Put(s, "safety_metrics", DefaultMetrics) ELSE s
          IN [state |-> Put(s1, "safety_metrics",
                            blocked_metrics(s1["safety_metrics"], detected_terms,
                                            current_time)),
              contents |-> blocked_contents(contents),
              detected_terms |-> detected_terms]
     ELSE [state |-> s,
           contents |-> rate_limit_callback(contents),
           detected_terms |-> detected_terms]

----------------------------------------------------------------------------
(* Core tool implementations.  Each is the pair of the session state it    *)
(* leaves and the dict it returns.                                         *)

\* validate_city_name that resolves without recording the city
validate_city_name_no_history(city, s) ==
  LET city_lower == Strip(Lower(city))
  IN IF city = <<>>
     THEN [state |-> s,
           ret |-> [status |-> "error",
                    error_message |-> <<"Please provide a valid city name.">>]]
     ELSE IF city_lower \in DOMAIN WEATHER_DATABASE
             \/ city_lower \in DOMAIN TIMEZONE_DATABASE
     THEN [state |-> s,
           ret |-> [status |-> "success", corrected_city |-> city_lower]]
     ELSE IF city_lower \in DOMAIN CITY_CORRECTIONS
     THEN [state |-> s,
           ret |-> [status |-> "success",
                    corrected_city |-> CITY_CORRECTIONS[city_lower],
                    original_city |-> city]]
     ELSE [state |-> s,
           ret |-> [status |-> "error",
                    error_message |->
                      <<"I couldn't recognize '{city}'. Please provide a valid city name.",
                        city>>]]

\* validate_city_name that returns the looked-up key in place of its correction
validate_city_name_returns_key(city, s) ==
  LET city_lower == Strip(Lower(city))
  IN IF city = <<>>
     THEN [state |-> s,
           ret |-> [status |-> "error",
                    error_message |-> <<"Please provide a valid city name.">>]]
     ELSE IF city_lower \in DOMAIN WEATHER_DATABASE
             \/ city_lower \in DOMAIN TIMEZONE_DATABASE
     THEN [state |-> update_city_history(city_lower, s),
           ret |-> [status |-> "success", corrected_city |-> city_lower]]
     ELSE IF city_lower \in DOMAIN CITY_CORRECTIONS
     THEN [state |-> update_city_history(city_lower, s),
           ret |-> [status |-> "success", corrected_city |-> city_lower,
                    original_city |-> city]]
     ELSE [state |-> s,
           ret |-> [status |-> "error",
                    error_message |->
                      <<"I couldn't recognize '{city}'. Please provide a valid city name.",
                        city>>]]

\* validate_city_name that records a city it does not recognize
validate_city_name_records_unknown(city, s) ==
  LET city_lower == Strip(Lower(city))
  IN IF city = <<>>
     THEN [state |-> s,
           ret |-> [status |-> "error",
                    error_message |-> <<"Please provide a valid city name.">>]]
     ELSE IF city_lower \in DOMAIN WEATHER_DATABASE
             \/ city_lower \in DOMAIN TIMEZONE_DATABASE
     THEN [state |-> update_city_history(city_lower, s),
           ret |-> [status |-> "success", corrected_city |-> city_lower]]
     ELSE IF city_lower \in DOMAIN CITY_CORRECTIONS
     THEN LET corrected == CITY_CORRECTIONS[city_lower]
          IN [state |-> update_city_history(corrected, s),
              ret |-> [status |-> "success", corrected_city |-> corrected,
                       original_city |-> city]]
     ELSE [state |-> update_city_history(city_lower, s),
           ret |-> [status |-> "error",
                    error_message |->
                      <<"I couldn't recognize '{city}'. Please provide a valid city name.",
                        city>>]]

\* validate_city_name that looks in the correction table first and returns
\* a canonical city with the casing it was given
validate_city_name_corrections_first(city, s) ==
  LET city_lower == Strip(Lower(city))
  IN IF city = <<>>
     THEN [state |-> s,
           ret |-> [status |-> "error",
                    error_message |-> <<"Please provide a valid city name.">>]]
     ELSE IF city_lower \in DOMAIN CITY_CORRECTIONS
     THEN LET corrected == CITY_CORRECTIONS[city_lower]
          IN [state |-> update_city_history(corrected, s),
              ret |-> [status |-> "success", corrected_city |-> corrected,
                       original_city |-> city]]
     ELSE IF city_lower \in DOMAIN WEATHER_DATABASE
             \/ city_lower \in DOMAIN TIMEZONE_DATABASE
     THEN [state |-> update_city_history(city_lower, s),
           ret |-> [status |-> "success", corrected_city |-> city]]
     ELSE [state |-> s,
           ret |-> [status |-> "error",
                    error_message |->
                      <<"I couldn't recognize '{city}'. Please provide a valid city name.",
                        city>>]]

\* city is a str, so "not city or not isinstance(city, str)" tests for ""
validate_city_name(city, s) ==
  LET city_lower == Strip(Lower(city))
  IN IF city = <<>>
     THEN [state |-> s,
           ret |-> [status |-> "error",
                    error_message |-> <<"Please provide a valid city name.">>]]
     ELSE IF city_lower \in DOMAIN WEATHER_DATABASE
             \/ city_lower \in DOMAIN TIMEZONE_DATABASE
     THEN [state |-> update_city_history(city_lower, s),
           ret |-> [status |-> "success", corrected_city |-> city_lower]]
     ELSE IF city_lower \in DOMAIN CITY_CORRECTIONS
     THEN LET corrected == CITY_CORRECTIONS[city_lower]
          IN [state |-> update_city_history(corrected, s),
              ret |-> [status |-> "success", corrected_city |-> corrected,
                       original_city |-> city]]
     ELSE [state |-> s,
           ret |-> [status |-> "error",
                    error_message |->
                      <<"I couldn't recognize '{city}'. Please provide a valid city name.",
                        city>>]]

\* get_weather that records the city only when the lookup succeeds
get_weather_appends_on_success(city, s) ==
  LET city_key == Lower(city)
      temperature_unit == Get(s, "temperature_unit", str_celsius)
  IN IF city_key \in DOMAIN WEATHER_DATABASE
     THEN LET weather == WEATHER_DATABASE[city_key]
              temperature_str ==
                IF Lower(temperature_unit) = str_fahrenheit
                THEN <<weather.temperature_fahrenheit, "degrees Fahrenheit">>
                ELSE <<weather.temperature_celsius, "degrees Celsius">>
          IN [state |-> update_city_history(city_key, s),
              ret |-> [status |-> "success",
                       report |->
                         <<"The weather in {city} is {condition} with a temperature of {temperature_str}.",
                           city, weather.condition, temperature_str>>]]
     ELSE [state |-> s,
           ret |-> [status |-> "error",
                    error_message |->
                      <<"Weather information for '{city}' is not available.", city>>]]

\* get_weather that tests the unit against "Fahrenheit", which no stored unit equals
get_weather_unit_case(city, s) ==
  LET city_key == Lower(city)
      temperature_unit == Get(s, "temperature_unit", str_celsius)
      s1 == update_city_history(city_key, s)
  IN IF city_key \in DOMAIN WEATHER_DATABASE
     THEN LET weather == WEATHER_DATABASE[city_key]
              temperature_str ==
                IF Lower(temperature_unit) = <<"F","a","h","r","e","n","h","e","i","t">>
                THEN <<weather.temperature_fahrenheit, "degrees Fahrenheit">>
                ELSE <<weather.temperature_celsius, "degrees Celsius">>
          IN [state |-> s1,
              ret |-> [status |-> "success",
                       report |->
                         <<"The weather in {city} is {condition} with a temperature of {temperature_str}.",
                           city, weather.condition, temperature_str>>]]
     ELSE [state |-> s1,
           ret |-> [status |-> "error",
                    error_message |->
                      <<"Weather information for '{city}' is not available.", city>>]]

\* get_weather that records the city with the casing it was given
get_weather_records_as_given(city, s) ==
  LET city_key == Lower(city)
      temperature_unit == Get(s, "temperature_unit", str_celsius)
      s1 == update_city_history_as_given(city, s)
  IN IF city_key \in DOMAIN WEATHER_DATABASE
     THEN LET weather == WEATHER_DATABASE[city_key]
              temperature_str ==
                IF Lower(temperature_unit) = str_fahrenheit
                THEN <<weather.temperature_fahrenheit, "degrees Fahrenheit">>
                ELSE <<weather.temperature_celsius, "degrees Celsius">>
          IN [state |-> s1,
              ret |-> [status |-> "success",
                       report |->
                         <<"The weather in {city} is {condition} with a temperature of {temperature_str}.",
                           city, weather.condition, temperature_str>>]]
     ELSE [state |-> s1,
           ret |-> [status |-> "error",
                    error_message |->
                      <<"Weather information for '{city}' is not available.", city>>]]

get_weather(city, s) ==
  LET city_key == Lower(city)
      temperature_unit == Get(s, "temperature_unit", str_celsius)
      s1 == update_city_history(city_key, s)
  IN IF city_key \in DOMAIN WEATHER_DATABASE
     THEN LET weather == WEATHER_DATABASE[city_key]
              temperature_str ==
                IF Lower(temperature_unit) = str_fahrenheit
                THEN <<weather.temperature_fahrenheit, "degrees Fahrenheit">>
                ELSE <<weather.temperature_celsius, "degrees Celsius">>
          IN [state |-> s1,
              ret |-> [status |-> "success",
                       report |->
                         <<"The weather in {city} is {condition} with a temperature of {temperature_str}.",
                           city, weather.condition, temperature_str>>]]
     ELSE [state |-> s1,
           ret |-> [status |-> "error",
                    error_message |->
                      <<"Weather information for '{city}' is not available.", city>>]]

\* now: what datetime.datetime.now(tz) reads
get_current_time(city, s, now) ==
  LET city_key == Lower(city)
      s1 == update_city_history(city_key, s)
  IN IF city_key \in DOMAIN TIMEZONE_DATABASE
     THEN [state |-> s1,
           ret |-> [status |-> "success",
                    report |-> <<"The current time in {city} is {now}", city,
                                 TIMEZONE_DATABASE[city_key], now>>]]
     ELSE [state |-> s1,
           ret |-> [status |-> "error",
                    error_message |->
                      <<"Sorry, I don't have timezone information for {city}.", city>>]]

\* update_temperature_preference that tests the lowercased unit and stores
\* the unit with the casing it was given
update_temperature_preference_keeps_case(unit_arg, s) ==
  LET unit == Strip(Lower(unit_arg))
  IN IF unit \notin {str_celsius, str_fahrenheit}
     THEN [state |-> s,
           ret |-> [status |-> "error",
                    error_message |->
                      <<"Invalid temperature unit. Please choose 'celsius' or 'fahrenheit'.">>]]
     ELSE [state |-> Put(s, "temperature_unit", Strip(unit_arg)),
           ret |-> [status |-> "success",
                    message |->
                      <<"Your temperature unit preference has been updated to {unit}.", unit>>]]

\* update_temperature_preference that stores the unit before it tests it
update_temperature_preference_stores_invalid(unit_arg, s) ==
  LET unit == Strip(Lower(unit_arg))
  IN IF unit \notin {str_celsius, str_fahrenheit}
     THEN [state |-> Put(s, "temperature_unit", unit),
           ret |-> [status |-> "error",
                    error_message |->
                      <<"Invalid temperature unit. Please choose 'celsius' or 'fahrenheit'.">>]]
     ELSE [state |-> Put(s, "temperature_unit", unit),
           ret |-> [status |-> "success",
                    message |->
                      <<"Your temperature unit preference has been updated to {unit}.", unit>>]]

update_temperature_preference(unit_arg, s) ==
  LET unit == Strip(Lower(unit_arg))
  IN IF unit \notin {str_celsius, str_fahrenheit}
     THEN [state |-> s,
           ret |-> [status |-> "error",
                    error_message |->
                      <<"Invalid temperature unit. Please choose 'celsius' or 'fahrenheit'.">>]]
     ELSE [state |-> Put(s, "temperature_unit", unit),
           ret |-> [status |-> "success",
                    message |->
                      <<"Your temperature unit preference has been updated to {unit}.", unit>>]]

\* get_recent_cities that reads state["city_history"] and, through
\* update-style access, leaves an empty list where the key was absent
get_recent_cities_writes_default(s) ==
  LET s1 == IF ~Has(s, "city_history") THEN Put(s, "city_history", <<>>) ELSE s
      city_history == s1["city_history"]
  IN IF city_history = <<>>
     THEN [state |-> s1,
           ret |-> [status |-> "success",
                    message |-> <<"You haven't searched for any cities yet.">>]]
     ELSE [state |-> s1,
           ret |-> [status |-> "success",
                    message |-> <<"Your recently searched cities: {city_list}",
                                  city_history>>,
                    cities |-> city_history]]

get_recent_cities(s) ==
  LET city_history == Get(s, "city_history", <<>>)
  IN IF city_history = <<>>
     THEN [state |-> s,
           ret |-> [status |-> "success",
                    message |-> <<"You haven't searched for any cities yet.">>]]
     ELSE [state |-> s,
           ret |-> [status |-> "success",
                    message |-> <<"Your recently searched cities: {city_list}",
                                  city_history>>,
                    cities |-> city_history]]

get_safety_metrics(s) ==
  LET metrics == Get(s, "safety_metrics", DefaultMetrics)
      message ==
        IF metrics.blocked_attempts = 0
        THEN <<"No safety violations have been detected in this session.">>
        ELSE <<"Safety system has blocked {blocked_attempts} request(s). Last blocked: {last_blocked_time}. Terms detected: {blocked_terms_detected}.",
               metrics.blocked_attempts, metrics.last_blocked_time,
               metrics.blocked_terms_detected>>
  IN [state |-> s,
      ret |-> [status |-> "success", message |-> message, metrics |-> metrics]]

\* city: the empty tuple for None (the default) and for ""; the runtime
\* always passes a tool_context
combine_weather_time_info(city, s) ==
  IF city = <<>>
  THEN [state |-> s,
        ret |-> [status |-> "error",
                 error_message |-> <<"No city information was provided.">>]]
  ELSE LET unit_preference ==
             IF Has(s, "temperature_unit") THEN s["temperature_unit"]
             ELSE <<"d","e","f","a","u","l","t">>
       IN [state |-> s,
           ret |-> [status |-> "success",
                    message |->
                      <<"Here's the information for {city} (temperature displayed in {unit_preference}):",
                        city, unit_preference>>,
                    city |-> city]]

----------------------------------------------------------------------------
(* The tools called in any order on one session.                           *)

\* the city arguments the calls draw from
CityInputs == { <<"L","o","n","d","o","n">>, <<" ","l","o","n","d","o","n"," ">>, <<"s","f">> }

\* the unit arguments the calls draw from
UnitInputs == { <<"C","E","L","S","I","U","S">>, <<" ","F","a","h","r","e","n","h","e","i","t"," ">>, <<"k","e","l","v","i","n">> }

\* the instants the clock can read
MaxClock == 1

Times == 0..MaxClock

NoRequest == <<>>

Ran(op, args, r) ==
  /\ state' = r.state
  /\ prev' = state
  /\ last' = [op |-> op, args |-> args, ret |-> r.ret]
  /\ UNCHANGED <<llm_request, prev_request, events, pc, log>>

BeforeAgent ==
  Ran("before_agent", <<>>, [state |-> before_agent(state), ret |-> <<>>])

ValidateCityName(cities) ==
  \E city \in cities :
    Ran("validate_city_name", <<city>>, validate_city_name(city, state))

GetWeather(cities) ==
  \E city \in cities : Ran("get_weather", <<city>>, get_weather(city, state))

GetCurrentTime(cities) ==
  \E city \in cities, now \in Times :
    Ran("get_current_time", <<city>>, get_current_time(city, state, now))

UpdateTemperaturePreference(units) ==
  \E unit \in units :
    Ran("update_temperature_preference", <<unit>>,
        update_temperature_preference(unit, state))

GetRecentCities == Ran("get_recent_cities", <<>>, get_recent_cities(state))

GetSafetyMetrics == Ran("get_safety_metrics", <<>>, get_safety_metrics(state))

CombineWeatherTimeInfo(cities) ==
  \E city \in cities :
    Ran("combine_weather_time_info", <<city>>,
        combine_weather_time_info(city, state))

NoOp == [op |-> "init", args |-> <<>>, ret |-> <<>>]

\* nothing was called yet
Fresh == last.op = "init"

Init ==
  /\ state = EmptyDict
  /\ llm_request = NoRequest
  /\ last = NoOp
  /\ prev = EmptyDict
  /\ prev_request = NoRequest
  /\ events = <<>>
  /\ pc = "idle"
  /\ log = <<>>

Next ==
  \/ BeforeAgent
  \/ ValidateCityName(CityInputs)
  \/ GetWeather(CityInputs)
  \/ GetCurrentTime(CityInputs)
  \/ UpdateTemperaturePreference(UnitInputs)
  \/ GetRecentCities
  \/ GetSafetyMetrics
  \/ CombineWeatherTimeInfo(CityInputs)

Spec == Init /\ [][Next]_vars

----------------------------------------------------------------------------
(* One call of one tool, on every argument of a larger set, from each of a *)
(* set of session states.                                                  *)

\* the city arguments of the single call: every key of the three tables,
\* respellings of some of them, and strings that are in no table
AllCityInputs ==
  DOMAIN WEATHER_DATABASE \cup DOMAIN TIMEZONE_DATABASE
    \cup DOMAIN CITY_CORRECTIONS
    \cup { <<"L","o","n","d","o","n">>, <<" ","l","o","n","d","o","n"," ">>, <<"T","O","K","Y","O">>, <<"N","Y","C">>, <<" ","S","i","d","n","e","y">>,
           str_san_francisco, <<"a","t","l","a","n","t","i","s">>, <<" ">>, <<>> }

\* the unit arguments of the single call: the two units in several casings
\* and with whitespace around them, and strings that are neither
AllUnitInputs ==
  { str_celsius, str_fahrenheit, <<"C","E","L","S","I","U","S">>, <<"C","e","l","s","i","u","s">>, <<" ","F","a","h","r","e","n","h","e","i","t"," ">>,
    <<"F","A","H","R","E","N","H","E","I","T","\n">>, <<"k","e","l","v","i","n">>, <<"c">>, <<"c","e","l","s","i","u","s"," ","d","e","g","r","e","e","s">>, <<"c","e","l"," ","s","i","u","s">>,
    <<" ">>, <<>> }

\* histories a session can hold when the call is made
HistoryPool ==
  { <<>>, <<str_london>>, <<str_tokyo, str_paris>>,
    <<str_sydney, str_tokyo, str_new_york, str_berlin, str_paris>>,
    <<str_tokyo, str_london, str_san_francisco, str_tokyo, str_london>> }

\* safety_metrics as earlier blocked requests can have left it
MetricsPool ==
  { DefaultMetrics,
    [blocked_attempts |-> 1, last_blocked_time |-> <<0>>,
     blocked_terms_detected |-> <<BLOCKED_TERMS[1]>>],
    [blocked_attempts |-> 2, last_blocked_time |-> <<1>>,
     blocked_terms_detected |->
       <<BLOCKED_TERMS[6], BLOCKED_TERMS[1], BLOCKED_TERMS[6]>>] }

StatePool ==
  { [k \in keys |->
       CASE k = "temperature_unit" -> unit
         [] k = "city_history" -> history
         [] k = "safety_metrics" -> metrics] :
      keys \in SUBSET {"temperature_unit", "city_history", "safety_metrics"},
      unit \in {str_celsius, str_fahrenheit},
      history \in HistoryPool,
      metrics \in MetricsPool }

InitCall ==
  /\ state \in StatePool
  /\ llm_request = NoRequest
  /\ last = NoOp
  /\ prev = state
  /\ prev_request = NoRequest
  /\ events = <<>>
  /\ pc = "idle"
  /\ log = <<>>

NextCall ==
  \/ Fresh /\ BeforeAgent
  \/ Fresh /\ ValidateCityName(AllCityInputs)
  \/ Fresh /\ GetWeather(AllCityInputs)
  \/ Fresh /\ GetCurrentTime(AllCityInputs)
  \/ Fresh /\ UpdateTemperaturePreference(AllUnitInputs)
  \/ Fresh /\ GetRecentCities
  \/ Fresh /\ GetSafetyMetrics
  \/ Fresh /\ CombineWeatherTimeInfo(AllCityInputs)

SpecCall == InitCall /\ [][NextCall]_vars

----------------------------------------------------------------------------
(* One call of safety_check, on every request of a set, from each of a set *)
(* of session states.                                                      *)

\* the texts a part can carry
TextPool ==
  { <<>>, <<"h","i">>, <<"a"," ","B","O","M","B","!">>, <<"b","o","m","b","a","s","t","i","c">>, <<"b","o","m","b","_","s","q","u","a","d">>, <<"k","i","l","l"," ","b","o","m","b">> }

\* the parts of a request: one without text, one per text
PartPool == {Part(<<>>)} \cup {Part(<<t>>) : t \in TextPool}

\* the number of parts of the largest request
MaxParts == 2

\* the requests of exactly n parts, split into contents in every way
RECURSIVE RequestsOf(_)
RequestsOf(n) ==
  IF n = 0 THEN {<<>>}
  ELSE UNION { { <<Content("user", ps)>> \o r :
                   ps \in [1..k -> PartPool], r \in RequestsOf(n - k) } :
               k \in 1..n }

RequestPool == UNION { RequestsOf(n) : n \in 0..MaxParts }

\* the session states the gate is called in: before any default was
\* written, and with every key present
GateStatePool ==
  {EmptyDict} \cup
  { [k \in {"temperature_unit", "city_history", "safety_metrics"} |->
       CASE k = "temperature_unit" -> str_fahrenheit
         [] k = "city_history" -> <<str_tokyo, str_paris>>
         [] k = "safety_metrics" -> metrics] :
      metrics \in MetricsPool }

SafetyCheck(requests) ==
  \E contents \in requests, current_time \in Times :
    LET r == safety_check(contents, state, current_time)
    IN /\ state' = r.state
       /\ llm_request' = r.contents
       /\ prev' = state
       /\ prev_request' = contents
       /\ last' = [op |-> "safety_check", args |-> <<current_time>>,
                   ret |-> [detected_terms |-> r.detected_terms]]
       /\ UNCHANGED <<events, pc, log>>

InitGate ==
  /\ state \in GateStatePool
  /\ llm_request = NoRequest
  /\ last = NoOp
  /\ prev = state
  /\ prev_request = NoRequest
  /\ events = <<>>
  /\ pc = "idle"
  /\ log = <<>>

\* safety_check called once more, on the request its first call left, when
\* that call changed the request
SafetyCheckAgain ==
  /\ last.op = "safety_check"
  /\ prev_request # llm_request
  /\ SafetyCheck({llm_request})

NextGate ==
  \/ Fresh /\ SafetyCheck(RequestPool)
  \/ SafetyCheckAgain

SpecGate == InitGate /\ [][NextGate]_vars

----------------------------------------------------------------------------
(* A run of root_agent.  The runtime calls before_agent_callback, then     *)
(* before every model call builds the request from the conversation and    *)
(* calls before_model_callback; the model call follows whatever the        *)
(* callback did to the request, since safety_check returns None.  The      *)
(* model is opaque: it answers with a call of one of the agent's tools,    *)
(* which the runtime executes before it calls the model again, or with a   *)
(* final text, which ends the run and is stored under output_key.          *)

\* what the user can say
UserTexts == { <<"L","o","n","d","o","n","?">>, <<"a"," ","B","O","M","B","!">>, <<"k","i","l","l"," ","b","o","m","b">> }

\* the arguments the model can pass to the tools
AgentCityInputs == { <<"L","o","n","d","o","n">> }

AgentUnitInputs == { <<"F","a","h","r","e","n","h","e","i","t">> }

\* the final text of the model
ModelReply == <<"o","k">>

\* the number of contents of the longest conversation
MaxEvents == 6

UserMessage ==
  /\ pc = "idle"
  /\ Len(events) < MaxEvents
  /\ \E text \in UserTexts :
       events' = Append(events, Content("user", <<Part(<<text>>)>>))
  /\ pc' = "before_agent"
  /\ UNCHANGED <<state, llm_request, last, prev, prev_request, log>>

BeforeAgentCallback ==
  /\ pc = "before_agent"
  /\ state' = before_agent(state)
  /\ prev' = state
  /\ last' = [op |-> "before_agent", args |-> <<>>, ret |-> <<>>]
  /\ pc' = "before_model"
  /\ UNCHANGED <<llm_request, prev_request, events, log>>

BeforeModelCallback ==
  /\ pc = "before_model"
  /\ \E current_time \in Times :
       LET r == safety_check(events, state, current_time)
       IN /\ state' = r.state
          /\ llm_request' = r.contents
          /\ prev' = state
          /\ prev_request' = events
          /\ last' = [op |-> "safety_check", args |-> <<current_time>>,
                      ret |-> [detected_terms |-> r.detected_terms]]
  /\ pc' = "model"
  /\ UNCHANGED <<events, log>>

\* the function_call content of the model and the function_response content
\* that answers it: parts without text
ToolContents == <<Content("model", <<Part(<<>>)>>), Content("user", <<Part(<<>>)>>)>>

ToolRan(op, args, r) ==
  /\ state' = r.state
  /\ prev' = state
  /\ last' = [op |-> op, args |-> args, ret |-> r.ret]
  /\ events' = events \o ToolContents
  /\ pc' = "before_model"
  /\ UNCHANGED <<llm_request, prev_request, log>>

ModelCallsTool ==
  /\ pc = "model"
  /\ Len(events) + Len(ToolContents) < MaxEvents
  /\ \/ \E city \in AgentCityInputs :
          ToolRan("validate_city_name", <<city>>, validate_city_name(city, state))
     \/ \E city \in AgentCityInputs :
          ToolRan("get_weather", <<city>>, get_weather(city, state))
     \/ \E city \in AgentCityInputs, now \in Times :
          ToolRan("get_current_time", <<city>>, get_current_time(city, state, now))
     \/ \E unit \in AgentUnitInputs :
          ToolRan("update_temperature_preference", <<unit>>,
                  update_temperature_preference(unit, state))
     \/ ToolRan("get_recent_cities", <<>>, get_recent_cities(state))
     \/ ToolRan("get_safety_metrics", <<>>, get_safety_metrics(state))
     \/ \E city \in AgentCityInputs :
          ToolRan("combine_weather_time_info", <<city>>,
                  combine_weather_time_info(city, state))

ModelAnswers ==
  /\ pc = "model"
  /\ events' = Append(events, Content("model", <<Part(<<ModelReply>>)>>))
  /\ state' = Put(state, "last_response", ModelReply)
  /\ prev' = state
  /\ last' = [op |-> "answer", args |-> <<>>, ret |-> <<>>]
  /\ pc' = "idle"
  /\ UNCHANGED <<llm_request, prev_request, log>>

NextAgent ==
  \/ UserMessage
  \/ BeforeAgentCallback
  \/ BeforeModelCallback
  \/ ModelCallsTool
  \/ ModelAnswers

SpecAgent == Init /\ [][NextAgent]_vars

----------------------------------------------------------------------------
(* A run of safe_root_agent on one user message.  The runtime calls the    *)
(* before_agent_callback of the pipeline, then runs its sub_agents: those  *)
(* of a SequentialAgent one after the other, each to its end, those of a   *)
(* ParallelAgent started together, their steps interleaved, the            *)
(* ParallelAgent ending when all of them ended.  A sub-agent with a model  *)
(* runs as root_agent does, on its own tools and without an output_key.    *)
(* A callback and a tool are synchronous functions: each runs as one step  *)
(* that no step of another sub-agent interrupts.                           *)

\* sub_agents with the lookups ahead of the validation
safe_root_agent_lookups_first ==
  <<"parallel_weather_time_agent", "city_validation_agent", "combination_agent">>

\* sub_agents of safe_root_agent
safe_root_agent ==
  <<"city_validation_agent", "parallel_weather_time_agent", "combination_agent">>

\* sub_agents of parallel_weather_time_agent
parallel_weather_time_agent == <<"weather_agent", "time_agent">>

\* the agents that have a model
LlmAgents ==
  {"city_validation_agent", "weather_agent", "time_agent", "combination_agent"}

\* the agents with a model that a sub-agent of the pipeline runs
AgentsOf(sub_agent) ==
  IF sub_agent = "parallel_weather_time_agent"
  THEN Range(parallel_weather_time_agent)
  ELSE {sub_agent}

\* the i-th sub-agent of the pipeline ran to its end
SubAgentEnded(i) == \A a \in AgentsOf(safe_root_agent[i]) : pc[a] = "done"

\* the pipeline has reached the sub-agent that runs a
MayBegin(a) ==
  \E i \in 1..Len(safe_root_agent) :
    /\ a \in AgentsOf(safe_root_agent[i])
    /\ \A j \in 1..(i - 1) : SubAgentEnded(j)

\* what the user can say to the pipeline
PipelineUserTexts == { <<"s","i","d","n","e","y","?">> }

\* the city arguments the models can pass: to validate_city_name, and to
\* the lookups and the combination
PipelineRawInputs == { <<"s","i","d","n","e","y">>, <<"P","a","r","i","s">> }

PipelineCityInputs == { str_sydney, str_paris }

\* the tool calls the models can ask for in a run
MaxToolCalls == 3

\* the session states a run starts from: a new session, and one that earlier
\* runs left with a full history and an earlier preference
PipelineStatePool ==
  { EmptyDict,
    [k \in {"temperature_unit", "city_history", "safety_metrics"} |->
       CASE k = "temperature_unit" -> str_fahrenheit
         [] k = "city_history" ->
              <<str_tokyo, str_london, str_san_francisco, str_tokyo, str_sydney>>
         [] k = "safety_metrics" -> DefaultMetrics] }

InitPipeline ==
  /\ state \in PipelineStatePool
  /\ llm_request = NoRequest
  /\ last = NoOp
  /\ prev = state
  /\ prev_request = NoRequest
  /\ events = <<>>
  /\ pc = [a \in LlmAgents \cup {"root"} |-> IF a = "root" THEN "idle" ELSE "waiting"]
  /\ log = <<>>

PipelineUserMessage(texts) ==
  /\ pc["root"] = "idle"
  /\ \E text \in texts :
       events' = <<Content("user", <<Part(<<text>>)>>)>>
  /\ pc' = [pc EXCEPT !["root"] = "before_agent"]
  /\ UNCHANGED <<state, llm_request, last, prev, prev_request, log>>

PipelineBeforeAgentCallback ==
  /\ pc["root"] = "before_agent"
  /\ state' = before_agent(state)
  /\ prev' = state
  /\ last' = [op |-> "before_agent", args |-> <<>>, ret |-> <<>>]
  /\ pc' = [pc EXCEPT !["root"] = "running"]
  /\ UNCHANGED <<llm_request, prev_request, events, log>>

SubAgentBeforeAgentCallback(a) ==
  /\ pc["root"] = "running"
  /\ pc[a] = "waiting"
  /\ MayBegin(a)
  /\ state' = before_agent(state)
  /\ prev' = state
  /\ last' = [op |-> "before_agent", args |-> <<>>, ret |-> <<>>]
  /\ pc' = [pc EXCEPT ![a] = "before_model"]
  /\ UNCHANGED <<llm_request, prev_request, events, log>>

SubAgentBeforeModelCallback(a) ==
  /\ pc[a] = "before_model"
  /\ \E current_time \in Times :
       LET r == safety_check(events, state, current_time)
       IN /\ state' = r.state
          /\ llm_request' = r.contents
          /\ prev' = state
          /\ prev_request' = events
          /\ last' = [op |-> "safety_check", args |-> <<current_time>>,
                      ret |-> [detected_terms |-> r.detected_terms]]
  /\ pc' = [pc EXCEPT ![a] = "model"]
  /\ UNCHANGED <<events, log>>

SubAgentToolRan(a, op, args, r) ==
  /\ state' = r.state
  /\ prev' = state
  /\ last' = [op |-> op, args |-> args, ret |-> r.ret]
  /\ log' = Append(log, [agent |-> a, op |-> op, args |-> args,
                         status |-> r.ret.status,
                         corrected_city |->
                           IF "corrected_city" \in DOMAIN r.ret
                           THEN <<r.ret.corrected_city>> ELSE <<>>,
                         before |-> state, after |-> r.state])
  /\ events' = events \o ToolContents
  /\ pc' = [pc EXCEPT ![a] = "before_model"]
  /\ UNCHANGED <<llm_request, prev_request>>

\* the model of a asks for a call of the tool of a
SubAgentModelCallsTool(a) ==
  /\ pc[a] = "model"
  /\ Len(log) < MaxToolCalls
  /\ \/ /\ a = "city_validation_agent"
        /\ \E city \in PipelineRawInputs :
             SubAgentToolRan(a, "validate_city_name", <<city>>,
                             validate_city_name(city, state))
     \/ /\ a = "weather_agent"
        /\ \E city \in PipelineCityInputs :
             SubAgentToolRan(a, "get_weather", <<city>>, get_weather(city, state))
     \/ /\ a = "time_agent"
        /\ \E city \in PipelineCityInputs, now \in Times :
             SubAgentToolRan(a, "get_current_time", <<city>>,
                             get_current_time(city, state, now))
     \/ /\ a = "combination_agent"
        /\ \E city \in PipelineCityInputs :
             SubAgentToolRan(a, "combine_weather_time_info", <<city>>,
                             combine_weather_time_info(city, state))

SubAgentModelAnswers(a) ==
  /\ pc[a] = "model"
  /\ events' = Append(events, Content("model", <<Part(<<ModelReply>>)>>))
  /\ prev' = state
  /\ last' = [op |-> "answer", args |-> <<>>, ret |-> <<>>]
  /\ pc' = [pc EXCEPT ![a] = "done"]
  /\ UNCHANGED <<state, llm_request, prev_request, log>>

NextPipeline ==
  \/ PipelineUserMessage(PipelineUserTexts)
  \/ PipelineBeforeAgentCallback
  \/ \E a \in LlmAgents : SubAgentBeforeAgentCallback(a)
  \/ \E a \in LlmAgents : SubAgentBeforeModelCallback(a)
  \/ \E a \in LlmAgents : SubAgentModelCallsTool(a)
  \/ \E a \in LlmAgents : SubAgentModelAnswers(a)

SpecPipeline == InitPipeline /\ [][NextPipeline]_vars

\* The runs of safe_root_agent in which every model answers its first
\* request with a final text, on user messages with and without blocked
\* terms: each of the four agents with a model makes its one model call,
\* which safety_check gates.
BlockedUserTexts == { <<"s","i","d","n","e","y","?">>, <<"a"," ","B","O","M","B"," ","i","n"," ","P","a","r","i","s">>, <<"k","i","l","l"," ","b","o","m","b">> }

NextPipelineAnswers ==
  \/ PipelineUserMessage(BlockedUserTexts)
  \/ PipelineBeforeAgentCallback
  \/ \E a \in LlmAgents : SubAgentBeforeAgentCallback(a)
  \/ \E a \in LlmAgents : SubAgentBeforeModelCallback(a)
  \/ \E a \in LlmAgents : SubAgentModelAnswers(a)

SpecPipelineAnswers == InitPipeline /\ [][NextPipelineAnswers]_vars

----------------------------------------------------------------------------
(* What the properties below speak of.                                     *)

\* a key of the session state: the one-element tuple of its value, or the
\* empty tuple when the key is absent
Field(s, k) == IF Has(s, k) THEN <<s[k]>> ELSE <<>>

\* city_history, the empty list when absent
Hist(s) == Get(s, "city_history", <<>>)

LookupOps == {"get_weather", "get_current_time"}

CityTools == {"validate_city_name", "get_weather", "get_current_time"}

Called(op) == last.op = op

Failed == last.ret.status = "error"

Succeeded == last.ret.status = "success"

\* the bounded ring of the data model: c is added at the end unless it is
\* already the last entry, and only the five most recent entries are kept
RingAppend(h, c) ==
  IF h # <<>> /\ h[Len(h)] = c THEN h
  ELSE IF Len(h) >= 5 THEN SubSeq(h, Len(h) - 3, Len(h)) \o <<c>>
  ELSE h \o <<c>>

\* the city the last operation handed to the history, if it handed one
AppendedCity ==
  IF last.op \in LookupOps THEN {Strip(Lower(last.args[1]))}
  ELSE IF Called("validate_city_name") /\ Succeeded
  THEN {last.ret.corrected_city}
  ELSE {}

\* term occurs in s as a whole word: no \w character touches it on either side
OccursAsWord(term, s) ==
  \E i \in 1..Len(s), j \in 1..Len(s) :
    /\ SubSeq(s, i, j) = term
    /\ i = 1 \/ s[i - 1] \notin WordChars
    /\ j = Len(s) \/ s[j + 1] \notin WordChars

\* the texts of the fragments of a request
TextsOf(contents) ==
  { PartsOf(contents)[i].text[1] :
      i \in { n \in 1..Len(PartsOf(contents)) : PartsOf(contents)[n].text # <<>> } }

\* term occurs as a whole word in the lowercased text of some fragment
TermOccurs(term, contents) ==
  \E t \in TextsOf(contents) : OccursAsWord(term, Lower(t))

\* the request holds the refusal prompt as its one user fragment and nothing else
Intercepted ==
  /\ Len(llm_request) = 1
  /\ llm_request[1].role = "user"
  /\ Len(llm_request[1].parts) = 1
  /\ llm_request[1].parts[1].text = <<SAFETY_PROMPT>>

\* safety_check ran and took its blocked branch, respectively its other one
Blocked == Called("safety_check") /\ last.ret.detected_terms # <<>>

Clear == Called("safety_check") /\ last.ret.detected_terms = <<>>

MetricsOf(s) == Get(s, "safety_metrics", DefaultMetrics)

----------------------------------------------------------------------------
\* C1: city_history never holds more than 5 entries, and when a call appends
\* a city to a history of 5, exactly the oldest entry is dropped: the other
\* four keep their order and the new city comes last.
C1_HistoryRing ==
  /\ Len(Hist(state)) <= 5
  /\ \A c \in AppendedCity :
       (Len(Hist(prev)) = 5 /\ Hist(prev)[5] # c)
         => Hist(state) = SubSeq(Hist(prev), 2, 5) \o <<c>>

\* a lookup found five entries, the two oldest of them different, and evicted
C1_Evicted ==
  /\ Called("get_weather")
  /\ Len(Hist(prev)) = 5
  /\ Hist(prev)[1] # Hist(prev)[2]
  /\ Hist(state) # Hist(prev)

C3_ResolutionNeverMutates ==
  /\ Called("validate_city_name")
       => Field(state, "city_history") = Field(prev, "city_history")
  /\ Hist(state) # Hist(prev) => (last.op \in LookupOps /\ Succeeded)

\* C3, amended: validate_city_name leaves the whole session state unchanged
\* when it fails; when it succeeds it appends the city it returns to
\* city_history by the ring rule and changes nothing else.  The entries of
\* city_history change only in a validate_city_name call that succeeds or
\* in a get_weather or get_current_time call, successful or not.
C3_ResolutionAppendsOnSuccess ==
  /\ (Called("validate_city_name") /\ Failed) => state = prev
  /\ (Called("validate_city_name") /\ Succeeded)
       => /\ Field(state, "city_history")
               = <<RingAppend(Hist(prev), last.ret.corrected_city)>>
          /\ Field(state, "temperature_unit") = Field(prev, "temperature_unit")
          /\ Field(state, "safety_metrics") = Field(prev, "safety_metrics")
  /\ Hist(state) # Hist(prev)
       => \/ last.op \in LookupOps
          \/ Called("validate_city_name") /\ Succeeded

\* validate_city_name resolved a misspelling and the history grew by it
C3_ResolutionAppended ==
  /\ Called("validate_city_name")
  /\ Succeeded
  /\ "original_city" \in DOMAIN last.ret
  /\ Hist(state) = Hist(prev) \o <<last.ret.corrected_city>>

\* C4: safety_check replaces the request by the refusal prompt exactly when
\* some term of BLOCKED_TERMS occurs as a whole word in the lowercased text
\* of a fragment; a term inside a longer word passes; the session state the
\* call starts from has no part in the decision.
C4_InterceptIffWholeWord ==
  Called("safety_check")
    => (Intercepted
          <=> \E k \in 1..Len(BLOCKED_TERMS) :
                TermOccurs(BLOCKED_TERMS[k], prev_request))

\* a request whose only text is "bombastic" passed, in a session where
\* requests were blocked before
C4_SubstringPassed ==
  /\ Called("safety_check")
  /\ TextsOf(prev_request) = { <<"b","o","m","b","a","s","t","i","c">> }
  /\ ~Intercepted
  /\ MetricsOf(prev).blocked_attempts > 0

\* C5: a safety_check call that blocks adds exactly 1 to blocked_attempts,
\* sets last_blocked_time to the time it read, and appends the terms that
\* occur, each once and in the order of BLOCKED_TERMS, after the terms
\* recorded before.
C5_BlockedUpdatesMetrics ==
  Blocked
    => /\ Has(state, "safety_metrics")
       /\ state["safety_metrics"].blocked_attempts
            = MetricsOf(prev).blocked_attempts + 1
       /\ state["safety_metrics"].last_blocked_time = <<last.args[1]>>
       /\ state["safety_metrics"].blocked_terms_detected
            = MetricsOf(prev).blocked_terms_detected
                \o SelectSeq(BLOCKED_TERMS,
                             LAMBDA term : TermOccurs(term, prev_request))

\* a request with two blocked terms was blocked after earlier blocks: the
\* count rose by one and the list by two, a term recorded before among them
C5_TwoTermsBlocked ==
  /\ Blocked
  /\ MetricsOf(prev).blocked_attempts = 2
  /\ state["safety_metrics"].blocked_attempts = 3
  /\ Len(state["safety_metrics"].blocked_terms_detected) = 5
  /\ MetricsOf(prev).last_blocked_time # state["safety_metrics"].last_blocked_time

\* C6: after a safety_check call that blocks, the request holds exactly one
\* user content with one part, the refusal prompt: no fragment of the
\* original request is left, and none was rewritten to a space.
C6_BlockedReplacesContents == Blocked => Intercepted

\* a request of two contents, one of them an empty text, was blocked
C6_BlockedTwoContents ==
  /\ Blocked
  /\ Len(prev_request) = 2
  /\ <<>> \in TextsOf(prev_request)
  /\ Intercepted

\* C7: a safety_check call that finds no blocked term leaves the session
\* state (safety_metrics included) as it was and passes the request on with
\* the same contents and parts in the same order; a part whose text is the
\* empty string now holds a single space and no other part changed.
C7_ClearPassesThrough ==
  Clear
    => /\ state = prev
       /\ Len(llm_request) = Len(prev_request)
       /\ \A c \in 1..Len(prev_request) :
            /\ llm_request[c].role = prev_request[c].role
            /\ Len(llm_request[c].parts) = Len(prev_request[c].parts)
            /\ \A q \in 1..Len(prev_request[c].parts) :
                 llm_request[c].parts[q].text =
                   IF prev_request[c].parts[q].text = << <<>> >>
                   THEN << <<" ">> >>
                   ELSE prev_request[c].parts[q].text

\* a clear request with an empty text and another text passed
C7_EmptyTextPassed ==
  /\ Clear
  /\ TextsOf(prev_request) = { <<>>, <<"h","i">> }
  /\ TextsOf(llm_request) = { <<" ">>, <<"h","i">> }

\* C8: when the gate intercepted the request of a model call, no city tool
\* runs for that call: a tool call that answers an intercepted request
\* leaves city_history and temperature_unit as they were.
C8_BlockedRunsNoTool ==
  (Intercepted /\ last.op \in CityTools)
    => /\ Field(state, "city_history") = Field(prev, "city_history")
       /\ Field(state, "temperature_unit") = Field(prev, "temperature_unit")

\* C9: get_weather on a key of the weather table succeeds in every session
\* state and reports the stored temperature_fahrenheit when temperature_unit
\* is "fahrenheit", the stored temperature_celsius when it is "celsius" or
\* unset.
C9_WeatherReportsStoredValue ==
  (Called("get_weather") /\ last.args[1] \in DOMAIN WEATHER_DATABASE)
    => /\ Succeeded
       /\ last.ret.report[4] =
            IF Field(prev, "temperature_unit") = <<str_fahrenheit>>
            THEN <<WEATHER_DATABASE[last.args[1]].temperature_fahrenheit,
                   "degrees Fahrenheit">>
            ELSE <<WEATHER_DATABASE[last.args[1]].temperature_celsius,
                   "degrees Celsius">>

\* get_weather("sydney") with the unit set to fahrenheit reported 81
C9_SydneyInFahrenheit ==
  /\ Called("get_weather")
  /\ last.args[1] = str_sydney
  /\ Field(prev, "temperature_unit") = <<str_fahrenheit>>
  /\ last.ret.status = "success"
  /\ last.ret.report[4][1] = 81

\* C10, as claimed: validate_city_name on a key R of the correction table
\* succeeds, returns the mapped city as corrected_city and R as
\* original_city, and the returned city differs from R unless R maps to
\* itself.
C10_CorrectionCarriesOriginal ==
  (Called("validate_city_name") /\ last.args[1] \in DOMAIN CITY_CORRECTIONS)
    => /\ Succeeded
       /\ last.ret.corrected_city = CITY_CORRECTIONS[last.args[1]]
       /\ "original_city" \in DOMAIN last.ret
       /\ last.ret.original_city = last.args[1]
       /\ CITY_CORRECTIONS[last.args[1]] # last.args[1]
            => last.ret.corrected_city # last.args[1]

\* C10, amended: validate_city_name on a key R of the correction table
\* succeeds and returns the mapped city as corrected_city, which differs
\* from R unless R maps to itself; it returns R as original_city when R is
\* a key of neither the weather nor the timezone table, and returns no
\* original_city when it is (the key "tokyo").
C10_CorrectionMapped ==
  (Called("validate_city_name") /\ last.args[1] \in DOMAIN CITY_CORRECTIONS)
    => /\ Succeeded
       /\ last.ret.corrected_city = CITY_CORRECTIONS[last.args[1]]
       /\ CITY_CORRECTIONS[last.args[1]] # last.args[1]
            => last.ret.corrected_city # last.args[1]
       /\ IF last.args[1] \in DOMAIN WEATHER_DATABASE \cup DOMAIN TIMEZONE_DATABASE
          THEN "original_city" \notin DOMAIN last.ret
          ELSE /\ "original_city" \in DOMAIN last.ret
               /\ last.ret.original_city = last.args[1]

\* validate_city_name("sidney") returned "sydney" and the original "sidney"
C10_SidneyCorrected ==
  /\ Called("validate_city_name")
  /\ last.args[1] = <<"s","i","d","n","e","y">>
  /\ last.ret.status = "success"
  /\ last.ret.corrected_city = str_sydney
  /\ "original_city" \in DOMAIN last.ret

\* the trimmed, lowercased form of c is a key of none of the three tables
InNoTable(c) ==
  Strip(Lower(c)) \notin
    DOMAIN WEATHER_DATABASE \cup DOMAIN TIMEZONE_DATABASE \cup DOMAIN CITY_CORRECTIONS

\* the message of the unrecognized-city error for the raw input c
UnrecognizedCity(c) ==
  <<"I couldn't recognize '{city}'. Please provide a valid city name.", c>>

\* C11, as claimed: validate_city_name on a raw string whose trimmed,
\* lowercased form is a key of no table fails with the unrecognized-city
\* error, which carries the raw string, and changes no session state.
C11_UnknownCityUnrecognized ==
  (Called("validate_city_name") /\ InNoTable(last.args[1]))
    => /\ Failed
       /\ last.ret.error_message = UnrecognizedCity(last.args[1])
       /\ state = prev

\* C11, amended: validate_city_name on a raw string whose trimmed, lowercased
\* form is a key of no table fails and changes no session state; the error
\* is the unrecognized-city error carrying the raw string when the raw
\* string is not empty, and the invalid-input error when it is empty.
C11_UnknownCityRejected ==
  (Called("validate_city_name") /\ InNoTable(last.args[1]))
    => /\ Failed
       /\ state = prev
       /\ last.ret.error_message =
            IF last.args[1] = <<>>
            THEN <<"Please provide a valid city name.">>
            ELSE UnrecognizedCity(last.args[1])

\* validate_city_name(" ") failed on a session with a history and named the
\* single space in its message
C11_BlankCityRejected ==
  /\ Called("validate_city_name")
  /\ last.args[1] = <<" ">>
  /\ last.ret.status = "error"
  /\ last.ret.error_message[2] = <<" ">>
  /\ Hist(prev) # <<>>
  /\ Hist(state) = Hist(prev)

\* the keys of the weather table and of the timezone table
CanonicalKeys == DOMAIN WEATHER_DATABASE \cup DOMAIN TIMEZONE_DATABASE

\* e holds no uppercase letter and neither starts nor ends with whitespace
IsNormalized(e) ==
  /\ \A i \in 1..Len(e) : e[i] \notin Range(UpperLetters)
  /\ e # <<>> => (e[1] \notin Whitespace /\ e[Len(e)] \notin Whitespace)

C14_CollapsesOnlyImmediateRepeats ==
  \A c \in AppendedCity :
    IF Hist(prev) # <<>> /\ Hist(prev)[Len(Hist(prev))] = c
    THEN Hist(state) = Hist(prev)
    ELSE /\ Hist(state) # <<>>
         /\ Hist(state)[Len(Hist(state))] = c
         /\ Len(Hist(prev)) < 5 => Hist(state) = Hist(prev) \o <<c>>

\* a lookup added a second entry for a city that was searched before, with
\* one other city in between
C14_NonAdjacentRepeat ==
  /\ last.op \in LookupOps
  /\ Len(Hist(state)) = Len(Hist(prev)) + 1
  /\ Len(Hist(state)) >= 3
  /\ Hist(state)[Len(Hist(state))] = Hist(state)[Len(Hist(state)) - 2]

\* a and b are the same character up to the case of a letter
SameLetter(a, b) ==
  a = b \/ \E k \in 1..26 : {a, b} = {UpperLetters[k], LowerLetters[k]}

\* arg is the unit u in some casing, with whitespace around it or not
MeansUnit(arg, u) ==
  \E i \in 1..Len(arg) :
    /\ i + Len(u) - 1 <= Len(arg)
    /\ \A k \in 1..Len(u) : SameLetter(arg[i + k - 1], u[k])
    /\ \A k \in 1..Len(arg) :
         (k < i \/ k > i + Len(u) - 1) => arg[k] \in Whitespace

\* the label of the temperature in a report of get_weather
ReportedUnit == last.ret.report[4][2]

\* C15: update_temperature_preference with "celsius" or "fahrenheit" in any
\* casing, trimmed, succeeds and sets temperature_unit to the lowercased
\* unit; a get_weather that reports then reports in the unit that is set,
\* and once a unit is set only a successful update_temperature_preference
\* changes it.
C15_PreferenceSetAndUsed ==
  /\ \A u \in {str_celsius, str_fahrenheit} :
       (Called("update_temperature_preference") /\ MeansUnit(last.args[1], u))
         => /\ Succeeded
            /\ Field(state, "temperature_unit") = <<u>>
  /\ (Called("get_weather") /\ Succeeded)
       => /\ Field(state, "temperature_unit") = <<str_fahrenheit>>
               => ReportedUnit = "degrees Fahrenheit"
          /\ Field(state, "temperature_unit") = <<str_celsius>>
               => ReportedUnit = "degrees Celsius"
  /\ (Has(prev, "temperature_unit")
        /\ Field(state, "temperature_unit") # Field(prev, "temperature_unit"))
       => (Called("update_temperature_preference") /\ Succeeded)

\* get_weather reported in Fahrenheit: the unit was set by an earlier
\* update_temperature_preference(" Fahrenheit ") and other tools ran since
C15_LaterWeatherInFahrenheit ==
  /\ Called("get_weather")
  /\ last.ret.status = "success"
  /\ last.ret.report[4] = <<64, "degrees Fahrenheit">>
  /\ Len(Hist(prev)) >= 2

\* C16: update_temperature_preference with a unit that is neither "celsius"
\* nor "fahrenheit" after trimming and lowercasing returns the invalid-unit
\* error and leaves the whole session state as it was.
C16_InvalidUnitRejected ==
  (/\ Called("update_temperature_preference")
   /\ ~MeansUnit(last.args[1], str_celsius)
   /\ ~MeansUnit(last.args[1], str_fahrenheit))
    => /\ Failed
       /\ last.ret.error_message =
            <<"Invalid temperature unit. Please choose 'celsius' or 'fahrenheit'.">>
       /\ state = prev

\* update_temperature_preference("kelvin") failed in a session whose unit
\* is fahrenheit, and the unit is still fahrenheit
C16_KelvinRejected ==
  /\ Called("update_temperature_preference")
  /\ last.args[1] = <<"k","e","l","v","i","n">>
  /\ last.ret.status = "error"
  /\ Field(prev, "temperature_unit") = <<str_fahrenheit>>
  /\ Field(state, "temperature_unit") = <<str_fahrenheit>>

\* the keys before_agent writes, and what it writes under each
DefaultOf(k) ==
  CASE k = "temperature_unit" -> str_celsius
    [] k = "city_history" -> <<>>
    [] k = "safety_metrics" -> DefaultMetrics

\* C17: before_agent writes the default of temperature_unit, city_history
\* and safety_metrics under each of these keys that is absent and leaves
\* every key that is present with the value it has, whenever it runs.
C17_BeforeAgentKeepsValues ==
  Called("before_agent")
    => /\ DOMAIN state
            = DOMAIN prev \cup {"temperature_unit", "city_history", "safety_metrics"}
       /\ \A k \in DOMAIN state :
            state[k] = IF Has(prev, k) THEN prev[k] ELSE DefaultOf(k)

\* before_agent ran again in a session whose unit is fahrenheit and whose
\* history is not empty, and changed nothing
C17_RanAgainOnSetValues ==
  /\ Called("before_agent")
  /\ Has(prev, "safety_metrics")
  /\ Field(prev, "temperature_unit") = <<str_fahrenheit>>
  /\ Len(Hist(prev)) >= 2
  /\ state = prev

\* C12: in a run of the pipeline, a get_weather call on the corrected_city
\* that an earlier successful validate_city_name call returned succeeds.
C12_ValidatedCityHasWeather ==
  \A i \in 1..Len(log), j \in 1..Len(log) :
    (/\ i < j
     /\ log[i].op = "validate_city_name"
     /\ log[i].status = "success"
     /\ log[j].op = "get_weather"
     /\ log[j].args = log[i].corrected_city)
      => log[j].status = "success"

\* an agent of the pipeline has begun, respectively has run to its end
Begun(a) == pc[a] # "waiting"

Ended(a) == pc[a] = "done"

\* C18: in a run of safe_root_agent neither weather_agent nor time_agent
\* begins before city_validation_agent has ended, and combination_agent
\* does not begin before both weather_agent and time_agent have ended; the
\* two lookup agents run in either order and overlap.
C18_ValidationThenLookupsThenCombination ==
  /\ (Begun("weather_agent") \/ Begun("time_agent"))
       => Ended("city_validation_agent")
  /\ Begun("combination_agent")
       => (Ended("weather_agent") /\ Ended("time_agent"))

\* both lookup agents are waiting for their model, and time_agent, the
\* second of the two sub_agents, has made its tool call while weather_agent
\* has not
C18_LookupsOverlap ==
  /\ pc["weather_agent"] = "model"
  /\ pc["time_agent"] = "model"
  /\ \E i \in 1..Len(log) : log[i].agent = "time_agent"
  /\ \A i \in 1..Len(log) : log[i].agent # "weather_agent"

\* C19: in every state of a run of the pipeline, the ones in which the
\* steps of weather_agent and time_agent interleave included, city_history
\* holds at most 5 entries and no entry equals the one before it.
C19_ParallelLookupsKeepRing ==
  /\ Len(Hist(state)) <= 5
  /\ \A i \in 1..(Len(Hist(state)) - 1) : Hist(state)[i] # Hist(state)[i + 1]

\* on a full history get_weather ran, then get_current_time on another
\* city while weather_agent had not ended: two entries were evicted
C19_InterleavedLookupsEvicted ==
  /\ Len(log) >= 2
  /\ log[Len(log) - 1].op = "get_weather"
  /\ log[Len(log)].op = "get_current_time"
  /\ pc["weather_agent"] = "before_model"
  /\ Len(Hist(log[Len(log) - 1].before)) = 5
  /\ Hist(state) = SubSeq(Hist(log[Len(log) - 1].before), 3, 5)
                     \o log[Len(log) - 1].args \o log[Len(log)].args

\* the i-th call of the run is a validate_city_name that succeeded, and
\* every call after it is a lookup of the city it returned
LookupsFollow(i) ==
  /\ log[i].op = "validate_city_name"
  /\ log[i].status = "success"
  /\ Len(log) > i
  /\ \A k \in (i + 1)..Len(log) :
       log[k].op \in LookupOps /\ log[k].args = log[i].corrected_city

\* the i-th call of the run is validate_city_name("sidney") on an empty
\* history with the default unit
SidneyScenario(i) ==
  /\ log[i].op = "validate_city_name"
  /\ log[i].args = << <<"s","i","d","n","e","y">> >>
  /\ Hist(log[i].before) = <<>>
  /\ Field(log[i].before, "temperature_unit") \in {<<>>, <<str_celsius>>}

\* what C20 says of "sidney": it resolves to "sydney", get_weather on
\* "sydney" reports the stored condition and Celsius temperature, and the
\* history is then the one entry "sydney"
SidneyEndToEnd ==
  \A i \in 1..Len(log) :
    SidneyScenario(i)
      => /\ log[i].status = "success"
         /\ log[i].corrected_city = <<str_sydney>>
         /\ LookupsFollow(i)
              => /\ Hist(state) = <<str_sydney>>
                 /\ Called("get_weather")
                      => /\ Succeeded
                         /\ last.ret.report[3] = "partly cloudy"
                         /\ last.ret.report[4] = <<27, "degrees Celsius">>

\* C20, as claimed: the "sidney" scenario, and in general a successful
\* validate_city_name followed by lookups of the city it returned adds
\* exactly one entry to city_history.
C20_ResolveThenLookupAddsOne ==
  /\ SidneyEndToEnd
  /\ \A i \in 1..Len(log) :
       LookupsFollow(i)
         => Hist(state) = LastN(Hist(log[i].before) \o log[i].corrected_city, 5)

\* C20, amended: the "sidney" scenario, and in general a successful
\* validate_city_name followed by lookups of the city it returned adds
\* exactly one entry to city_history when that city is not already its last
\* entry, and none when it is.
C20_ResolveThenLookupAddsAtMostOne ==
  /\ SidneyEndToEnd
  /\ \A i \in 1..Len(log) :
       LookupsFollow(i)
         => Hist(state) =
              LET h == Hist(log[i].before)
              IN IF h # <<>> /\ <<h[Len(h)]>> = log[i].corrected_city
                 THEN h
                 ELSE LastN(h \o log[i].corrected_city, 5)

\* validate_city_name("sidney") ran on an empty history, then
\* get_weather("sydney") reported 27 degrees Celsius, and the history is
\* the one entry "sydney"
C20_SidneyResolvedThenLookedUp ==
  /\ Len(log) = 2
  /\ SidneyScenario(1)
  /\ Has(log[1].before, "city_history")
  /\ LookupsFollow(1)
  /\ Called("get_weather")
  /\ last.ret.status = "success"
  /\ last.ret.report[4] = <<27, "degrees Celsius">>
  /\ Hist(state) = <<str_sydney>>

\* p is a prefix of q
IsPrefix(p, q) == Len(p) <= Len(q) /\ SubSeq(q, 1, Len(p)) = p

\* C21: no operation of a session lowers blocked_attempts, which is a
\* natural number, and none removes or changes a recorded term: the
\* blocked_terms_detected before an operation is a prefix of the one after.
C21_MetricsOnlyGrow ==
  /\ MetricsOf(state).blocked_attempts \in Nat
  /\ MetricsOf(state).blocked_attempts >= MetricsOf(prev).blocked_attempts
  /\ IsPrefix(MetricsOf(prev).blocked_terms_detected,
              MetricsOf(state).blocked_terms_detected)

\* a request was blocked in a session in which an earlier request, since
\* answered, was blocked: the count rose and the terms recorded before are
\* still the first ones
C21_BlockedAgainLater ==
  /\ Blocked
  /\ Has(prev, "last_response")
  /\ MetricsOf(prev).blocked_attempts >= 1
  /\ MetricsOf(state).blocked_attempts > MetricsOf(prev).blocked_attempts
  /\ Len(MetricsOf(state).blocked_terms_detected)
       > Len(MetricsOf(prev).blocked_terms_detected)

\* the message of get_recent_cities on a session without searches
NoHistoryMessage == <<"You haven't searched for any cities yet.">>

\* the message of get_safety_metrics on a session without blocked requests
NoViolationsMessage ==
  <<"No safety violations have been detected in this session.">>

\* C22: get_recent_cities and get_safety_metrics return status "success"
\* and leave the session state as it was, with or without city_history and
\* safety_metrics in it; get_recent_cities returns the no-history message
\* exactly when the history is empty or absent, and otherwise the entries
\* in the order they are stored; get_safety_metrics returns the
\* no-violations message exactly when blocked_attempts is 0.
C22_ReportsReadOnly ==
  /\ Called("get_recent_cities")
       => /\ Succeeded
          /\ state = prev
          /\ (last.ret.message = NoHistoryMessage) <=> (Hist(prev) = <<>>)
          /\ Hist(prev) # <<>>
               => /\ last.ret.cities = prev["city_history"]
                  /\ last.ret.message[2] = prev["city_history"]
  /\ Called("get_safety_metrics")
       => /\ Succeeded
          /\ state = prev
          /\ (last.ret.message = NoViolationsMessage)
               <=> (MetricsOf(prev).blocked_attempts = 0)
          /\ last.ret.metrics = MetricsOf(prev)

\* get_safety_metrics reported two blocked requests on a session state
\* that holds no city_history, and left it without one
C22_MetricsReportedWithoutHistory ==
  /\ Called("get_safety_metrics")
  /\ ~Has(prev, "city_history")
  /\ ~Has(state, "city_history")
  /\ last.ret.metrics.blocked_attempts = 2
  /\ last.ret.message[2] = 2

\* C23: after get_weather or get_current_time returned status "success"
\* for a city, the last entry of city_history is that city in lowercase.
C23_SuccessfulLookupRecordsCity ==
  (last.op \in LookupOps /\ Succeeded)
    => /\ Hist(state) # <<>>
       /\ LET e == Hist(state)[Len(Hist(state))]
          IN /\ Len(e) = Len(last.args[1])
             /\ \A i \in 1..Len(e) :
                  /\ SameLetter(e[i], last.args[1][i])
                  /\ e[i] \notin Range(UpperLetters)

\* get_current_time("TOKYO") succeeded on a full history that ended with
\* another city, and the history now ends with "tokyo"
C23_UppercaseCityRecorded ==
  /\ Called("get_current_time")
  /\ last.args[1] = <<"T","O","K","Y","O">>
  /\ last.ret.status = "success"
  /\ Len(Hist(prev)) = 5
  /\ Hist(prev)[5] # str_tokyo
  /\ Hist(state)[5] = str_tokyo

BlockedUserRequests ==
  { i \in 1..Len(events) :
      /\ events[i].role = "user"
      /\ \E k \in 1..Len(BLOCKED_TERMS) :
           TermOccurs(BLOCKED_TERMS[k], <<events[i]>>) }

\* C25: blocked_attempts, the count get_safety_metrics reports, is the
\* number of user requests that were blocked: in a run of the pipeline on
\* one user message it is 1 at most, however many agents gated the message.
C25_OneAttemptPerBlockedRequest ==
  MetricsOf(state).blocked_attempts <= Cardinality(BlockedUserRequests)

\* C26: no entry of city_history equals the entry before it, whatever
\* calls of validate_city_name, get_weather and get_current_time, evicting
\* ones included, produced the history.
C26_NoAdjacentRepeats ==
  \A i \in 1..Len(Hist(state)) :
    i > 1 => Hist(state)[i - 1] # Hist(state)[i]

\* a call evicted the oldest entry of a full history in which a city
\* occurred twice, and the new oldest entry differs from its neighbour
C26_EvictedFromHistoryWithRepeats ==
  /\ last.op \in CityTools
  /\ Len(Hist(prev)) = 5
  /\ Hist(prev)[1] = Hist(prev)[3]
  /\ Hist(state) = SubSeq(Hist(prev), 2, 5) \o <<Hist(state)[5]>>
  /\ Hist(state)[5] = Hist(prev)[4]

\* C27: blocked_attempts is 0 exactly when blocked_terms_detected is empty,
\* and exactly when last_blocked_time is unset; blocked_terms_detected
\* holds at least as many terms as blocked_attempts counts.
C27_MetricsConsistent ==
  LET metrics == MetricsOf(state)
  IN /\ (metrics.blocked_attempts = 0) <=> (metrics.blocked_terms_detected = <<>>)
     /\ (metrics.blocked_attempts = 0) <=> (metrics.last_blocked_time = <<>>)
     /\ Len(metrics.blocked_terms_detected) >= metrics.blocked_attempts

\* two requests were blocked in the session, three terms were recorded,
\* and a tool ran since
C27_TwoBlocksThreeTerms ==
  /\ Has(state, "safety_metrics")
  /\ state["safety_metrics"].blocked_attempts = 2
  /\ state["safety_metrics"].last_blocked_time # <<>>
  /\ Len(state["safety_metrics"].blocked_terms_detected) = 3
  /\ last.op \in CityTools

\* C28: safety_check called on a request that is the refusal prompt, as a
\* blocking call leaves it, finds no blocked term: it passes the request on
\* as it is and leaves blocked_attempts and blocked_terms_detected as they
\* were.
C28_RefusalPromptIsClear ==
  (/\ Called("safety_check")
   /\ prev_request = <<Content("user", <<Part(<<SAFETY_PROMPT>>)>>)>>)
    => /\ Clear
       /\ llm_request = prev_request
       /\ MetricsOf(state).blocked_attempts = MetricsOf(prev).blocked_attempts
       /\ MetricsOf(state).blocked_terms_detected
            = MetricsOf(prev).blocked_terms_detected

\* the session fields the two lookups can both touch
LookupFields(s) == <<Field(s, "city_history"), Field(s, "temperature_unit")>>

\* the two lookups of city c from session state s, weather first: the state
\* they leave and the status of each
WeatherThenTime(c, s, now) ==
  LET w == get_weather(c, s)
      t == get_current_time(c, w.state, now)
  IN [fields |-> LookupFields(t.state),
      weather |-> w.ret.status, time |-> t.ret.status]

\* the two lookups of city c from session state s, time first
TimeThenWeather(c, s, now) ==
  LET t == get_current_time(c, s, now)
      w == get_weather(c, t.state)
  IN [fields |-> LookupFields(w.state),
      weather |-> w.ret.status, time |-> t.ret.status]

\* C29: get_weather(c) followed by get_current_time(c) leaves the same
\* city_history and temperature_unit, and gives each of the two calls the
\* same status, as get_current_time(c) followed by get_weather(c). Checked
\* after the first lookup of either order has run: the other lookup applied
\* to the state it left agrees with the opposite order applied to the state
\* before it.
C29_LookupsCommute ==
  \A now \in Times :
    /\ Called("get_weather") =>
         LET c == last.args[1]
             t == get_current_time(c, state, now)
         IN /\ [fields |-> LookupFields(t.state),
                weather |-> last.ret.status, time |-> t.ret.status]
                 = TimeThenWeather(c, prev, now)
            /\ WeatherThenTime(c, prev, now) = TimeThenWeather(c, prev, now)
    /\ Called("get_current_time") =>
         LET c == last.args[1]
             w == get_weather(c, state)
         IN [fields |-> LookupFields(w.state),
             weather |-> w.ret.status, time |-> last.ret.status]
              = WeatherThenTime(c, prev, now)

\* witness: get_weather("TOKYO") ran on a full history that does not end
\* with tokyo, so the pair of lookups evicts one entry in either order
C29_UppercaseLookupOnFullHistory ==
  /\ Called("get_weather")
  /\ last.args[1] = <<"T","O","K","Y","O">>
  /\ Succeeded
  /\ Len(Hist(prev)) = HistoryCap
  /\ Hist(state) # Hist(prev)
  /\ Hist(get_current_time(last.args[1], state, 0).state) = Hist(state)

\* the tools that claim C30 names
ToolOps ==
  {"validate_city_name", "get_weather", "get_current_time",
   "update_temperature_preference", "combine_weather_time_info"}

\* C30: safety_check, whether it passes or blocks the request, changes
\* neither temperature_unit nor city_history, and validate_city_name,
\* get_weather, get_current_time, update_temperature_preference and
\* combine_weather_time_info never change safety_metrics.
C30_GateAndToolsWriteDisjointState ==
  /\ Called("safety_check") =>
       /\ Field(state, "temperature_unit") = Field(prev, "temperature_unit")
       /\ Field(state, "city_history") = Field(prev, "city_history")
  /\ last.op \in ToolOps =>
       Field(state, "safety_metrics") = Field(prev, "safety_metrics")

\* witness: a request was blocked in a session that holds a searched city
\* and the fahrenheit preference, both of which the block left in place
C30_BlockedWithHistoryAndPreference ==
  /\ Called("safety_check")
  /\ Blocked
  /\ Hist(state) = <<str_london>>
  /\ Field(state, "temperature_unit") = <<str_fahrenheit>>
  /\ MetricsOf(state).blocked_attempts = MetricsOf(prev).blocked_attempts + 1

====
